---- MODULE Spec2Model ----
(***************************************************************************)
(* Model of the fetch engine of the sitemap ingestion pipeline:            *)
(* pipeline.ingest.fetch_document with the constants of pipeline.throttle  *)
(* and pipeline.hashing.compute_hash.                                      *)
(*                                                                         *)
(* One call of fetch_document is followed step by step.  The remote server *)
(* and the network are the environment: on every attempt the request       *)
(* either raises an exception or yields a response with a status code, and *)
(* a body that is streamed chunk by chunk and may raise in the middle.     *)
(* Time is counted in milliseconds so that THROTTLE_DELAY (0.3 s) and the  *)
(* backoff delays (BACKOFF_BASE ** attempt seconds) are integers.          *)
(***************************************************************************)
EXTENDS Integers, Sequences, FiniteSets, TLC

(***************************************************************************)
(* Program constants, pipeline/throttle.py                                 *)
(***************************************************************************)
MAX_RETRIES == 3

BACKOFF_BASE == 2

THROTTLE_DELAY_MS == 300

MAX_CONTENT_SIZE == 5 * 1024 * 1024

TRANSIENT_STATUS_CODES == {408, 429, 500, 502, 503, 504}

(***************************************************************************)
(* Bounds of the environment                                               *)
(***************************************************************************)
\* longest exception message, in words
MaxMsgLen == 1

\* most chunks a response body is delivered in
MaxChunks == 2

(***************************************************************************)
(* Python's None and optional values: None is the empty set, a present     *)
(* value v is {v}.                                                         *)
(***************************************************************************)
None == {}

Some(v) == {v}

The(opt) == CHOOSE v \in opt : TRUE

(***************************************************************************)
(* The environment's alphabet                                              *)
(***************************************************************************)
\* status codes the server answers with: a success, the least code that is
\* an error, a non-transient 5xx code, and the least and greatest transient
\* codes
StatusCodes == {200, 400, 501, 408, 504}

\* words an exception message is made of
Words == {"refused", "TimeoutError"}

RECURSIVE SeqsUpTo(_, _)
SeqsUpTo(S, n) ==
    IF n = 0 THEN {<<>>}
    ELSE LET shorter == SeqsUpTo(S, n - 1)
         IN  shorter \cup {Append(s, x) : s \in {t \in shorter : Len(t) = n - 1}, x \in S}

Messages == SeqsUpTo(Words, MaxMsgLen)

\* An exception is given by the classes of requests.exceptions it is an
\* instance of and by its message.  ConnectTimeout is both a Timeout and a
\* ConnectionError; any other Exception subclass is an instance of neither.
ExcClasses == {{"Timeout"}, {"ConnectionError"}, {"Timeout", "ConnectionError"}, {}}

Exceptions == [classes : ExcClasses, msg : Messages]

\* encoded sizes of the chunks of a body, in bytes
ChunkSizes == {0, 1, MAX_CONTENT_SIZE}

Chunk(n) == [text |-> "chunk", bytes |-> n]

Bodies == SeqsUpTo({Chunk(n) : n \in ChunkSizes}, MaxChunks)

VARIABLES
    pc,             \* position of the call
    attempt,        \* loop variable of "for attempt in range(MAX_RETRIES + 1)"
    last_exception, \* local last_exception: None or a string (sequence of words)
    http_status,    \* local http_status: None or a status code
    content,        \* local content (sequence of chunks) once the body is read
    total_size,     \* local total_size
    content_hash,   \* local content_hash
    result,         \* the returned dict, once pc = "returned"
    trace           \* what the call did, in order: requests, sleeps, attempt ends

\* the variables of the single call
fetchVars == <<pc, attempt, last_exception, http_status, content, total_size,
               content_hash, result, trace>>

\* Calls that run at the same time, one per worker thread
VARIABLES
    cpc,            \* position of each call
    mem,            \* the storage cells the calls read and write
    pending,        \* the response each call is streaming the body of
    seen,           \* the per-attempt events each call has met, in order
    cresult         \* the dict each call returned

concVars == <<cpc, mem, pending, seen, cresult>>

\* A pipeline run and its evaluation
VARIABLES
    metrics,        \* the metrics dict of the run, {} before start_pipeline_run
    now,            \* the clock, datetime.now(timezone.utc), in milliseconds
    issued,         \* how many uuid4 values were generated
    ret             \* the operation called last and what it returned

runVars == <<metrics, now, issued, ret>>

vars == <<fetchVars, concVars, runVars>>


(***************************************************************************)
(* Pure helpers                                                            *)
(***************************************************************************)
RECURSIVE Pow(_, _)
Pow(b, e) == IF e = 0 THEN 1 ELSE b * Pow(b, e - 1)

\* range(MAX_RETRIES + 2): one iteration too many
InRange_OneMore(k) == k <= MAX_RETRIES + 1

\* attempt in range(MAX_RETRIES + 1)
InRange(k) == k <= MAX_RETRIES

\* BACKOFF_BASE * attempt: linear instead of exponential
Backoff_Linear(k) == BACKOFF_BASE * k * 1000

\* wait = BACKOFF_BASE ** attempt (seconds), in milliseconds
Backoff(k) == Pow(BACKOFF_BASE, k) * 1000

\* resp.status_code > 400: the boundary code 400 is let through
IsTerminal_Above400(code) == code > 400 /\ code \notin TRANSIENT_STATUS_CODES

\* resp.status_code >= 400 and resp.status_code not in TRANSIENT_STATUS_CODES
IsTerminal(code) == code >= 400 /\ code \notin TRANSIENT_STATUS_CODES

\* a transient set that lacks 408
IsTransient_No408(code) == code \in TRANSIENT_STATUS_CODES \ {408}

\* resp.status_code in TRANSIENT_STATUS_CODES
IsTransient(code) == code \in TRANSIENT_STATUS_CODES

\* A handler that lacks the catch-all "except Exception" clause
ExceptClause_NoCatchAll(exc) ==
    IF "Timeout" \in exc.classes THEN "timeout"
    ELSE IF "ConnectionError" \in exc.classes THEN "connection_error"
    ELSE "uncaught"

\* The except clause that handles an exception: the first one, in the order
\* Timeout, ConnectionError, Exception, whose class the exception is an
\* instance of.  "uncaught" when no clause matches.
ExceptClause(exc) ==
    IF "Timeout" \in exc.classes THEN "timeout"
    ELSE IF "ConnectionError" \in exc.classes THEN "connection_error"
    ELSE "exception"

\* The string the clause assigns to last_exception
Recorded(clause, exc) ==
    CASE clause = "timeout"          -> <<"timeout">>
      [] clause = "connection_error" -> <<"connection_error:">> \o exc.msg
      [] OTHER                       -> exc.msg

\* f"HTTP {resp.status_code} {resp.reason}": 408 Request Timeout, 504 Gateway Timeout
TransientMarker_WithReason(code) ==
    IF code \in {408, 504} THEN <<"HTTP", ToString(code), "timeout">>
    ELSE <<"HTTP", ToString(code)>>

\* f"HTTP {resp.status_code}"
TransientMarker(code) == <<"HTTP", ToString(code)>>

\* str(last_exception)
Str(x) == IF x = None THEN <<"None">> ELSE The(x)

\* str.lower(), word by word
LowerWord(w) ==
    CASE w = "TimeoutError" -> "timeouterror"
      [] w = "HTTP"         -> "http"
      [] w = "None"         -> "none"
      [] OTHER              -> w

Lower(s) == [i \in DOMAIN s |-> LowerWord(s[i])]

\* "timeout" in <string>: some word of the string holds the letters "timeout"
HasTimeout(s) == \E i \in DOMAIN s : s[i] \in {"timeout", "timeouterror"}

\* is_timeout = "timeout" in str(last_exception).lower()
IsTimeout(x) == HasTimeout(Lower(Str(x)))

\* len(content.encode("utf-8", errors="replace"))
RECURSIVE Utf8Len(_)
Utf8Len(text) == IF text = <<>> THEN 0 ELSE Head(text).bytes + Utf8Len(Tail(text))

\* compute_hash: SHA-256 of the encoded content, taken as collision free
compute_hash(text) == [sha256 |-> text]

\* size in bytes of "\n\n[TRUNCATED at 5 MB]"
MARKER_BYTES == 21

\* f"\n\n[TRUNCATED at {MAX_CONTENT_SIZE / (1024*1024):.0f} MB]"
Marker == [text |-> "marker", bytes |-> MARKER_BYTES]

\* the loop with a cap that is exclusive: a body of exactly MAX_CONTENT_SIZE
\* bytes is truncated
RECURSIVE Stream_CapExclusive(_, _, _, _, _)
Stream_CapExclusive(body, i, chunks, total, failAt) ==
    IF i = failAt
    THEN [chunks |-> chunks, total_size |-> total, truncated |-> FALSE, raised |-> TRUE,
          read |-> i - 1]
    ELSE IF i > Len(body)
    THEN [chunks |-> chunks, total_size |-> total, truncated |-> FALSE, raised |-> FALSE,
          read |-> i - 1]
    ELSE IF body[i].bytes = 0
    THEN Stream_CapExclusive(body, i + 1, chunks, total, failAt)
    ELSE IF total + body[i].bytes < MAX_CONTENT_SIZE
    THEN Stream_CapExclusive(body, i + 1, Append(chunks, body[i]), total + body[i].bytes,
                             failAt)
    ELSE [chunks |-> chunks, total_size |-> total + body[i].bytes,
          truncated |-> TRUE, raised |-> FALSE, read |-> i]

\* The loop over resp.iter_content: chunk i is asked for with `chunks` kept
\* and `total` bytes counted so far; the iterator raises when asked for
\* chunk number failAt (0: it never raises).  `read` is the number of chunks
\* the iterator has handed over when the loop is left.
RECURSIVE Stream(_, _, _, _, _)
Stream(body, i, chunks, total, failAt) ==
    IF i = failAt
    THEN [chunks |-> chunks, total_size |-> total, truncated |-> FALSE, raised |-> TRUE,
          read |-> i - 1]
    ELSE IF i > Len(body)
    THEN [chunks |-> chunks, total_size |-> total, truncated |-> FALSE, raised |-> FALSE,
          read |-> i - 1]
    ELSE IF body[i].bytes = 0
    THEN Stream(body, i + 1, chunks, total, failAt)
    ELSE IF total + body[i].bytes <= MAX_CONTENT_SIZE
    THEN Stream(body, i + 1, Append(chunks, body[i]), total + body[i].bytes, failAt)
    ELSE [chunks |-> chunks, total_size |-> total + body[i].bytes,
          truncated |-> TRUE, raised |-> FALSE, read |-> i]

\* "".join(chunks), with the marker appended after a truncation
Joined(s) == IF s.truncated THEN Append(s.chunks, Marker) ELSE s.chunks

\* the size that keeps the count of the loop after a truncation
ContentSize_Counted(s, text) == s.total_size

\* total_size at the return: recomputed from the content after a truncation
ContentSize(s, text) == IF s.truncated THEN Utf8Len(text) ELSE s.total_size

(***************************************************************************)
(* The returned dicts                                                      *)
(***************************************************************************)
\* the dict of the non-retryable return
TerminalOutcome(status, k) ==
    [content |-> None, content_hash |-> None, content_size_bytes |-> 0,
     http_status |-> status, fetch_status |-> "failed", retry_count |-> k]

\* "if content" in place of "is not None": no hash for an empty document
SuccessOutcome_NoHashWhenEmpty(text, hash, size, status, k) ==
    [content |-> Some(text),
     content_hash |-> IF text = <<>> THEN None ELSE Some(hash),
     content_size_bytes |-> size,
     http_status |-> status, fetch_status |-> "success", retry_count |-> k]

\* the dict of the successful return
SuccessOutcome(text, hash, size, status, k) ==
    [content |-> Some(text), content_hash |-> Some(hash), content_size_bytes |-> size,
     http_status |-> status, fetch_status |-> "success", retry_count |-> k]

\* the number of attempts in place of the number of retries
ExhaustedOutcome_Attempts(status, last) ==
    [content |-> None, content_hash |-> None, content_size_bytes |-> 0,
     http_status |-> status,
     fetch_status |-> IF IsTimeout(last) THEN "timeout" ELSE "failed",
     retry_count |-> MAX_RETRIES + 1]

\* the dict returned after the loop
ExhaustedOutcome(status, last) ==
    [content |-> None, content_hash |-> None, content_size_bytes |-> 0,
     http_status |-> status,
     fetch_status |-> IF IsTimeout(last) THEN "timeout" ELSE "failed",
     retry_count |-> MAX_RETRIES]

NoResult ==
    [content |-> None, content_hash |-> None, content_size_bytes |-> 0,
     http_status |-> None, fetch_status |-> "", retry_count |-> 0]

(***************************************************************************)
(* Trace events                                                            *)
(***************************************************************************)
EvGet(k) == [ev |-> "get", attempt |-> k, kind |-> "", val |-> 0, body |-> <<>>]

EvSleep(k, ms) == [ev |-> "sleep", attempt |-> k, kind |-> "", val |-> ms, body |-> <<>>]

\* the body of attempt k was streamed: the chunks the server had to send and
\* the number of them the iterator handed over
EvBody(k, body, read) ==
    [ev |-> "body", attempt |-> k, kind |-> "", val |-> read, body |-> body]

\* attempt k ended: kind is "success", "terminal", "transient" or the except
\* clause taken; val is the status code of the attempt's response, 0 if none
EvEnd(k, kind, code) ==
    [ev |-> "end", attempt |-> k, kind |-> kind, val |-> code, body |-> <<>>]

(***************************************************************************)
(* The states in which a part of the system does not run                   *)
(***************************************************************************)
\* the threads that call fetch_document at the same time
Calls == {1, 2}

\* the names assigned in the body of fetch_document
Locals == {"attempt", "last_exception", "http_status", "content", "total_size",
           "content_hash"}

\* no call is made
FetchIdle ==
    /\ pc = "idle"
    /\ attempt = 0
    /\ last_exception = None
    /\ http_status = None
    /\ content = None
    /\ total_size = 0
    /\ content_hash = None
    /\ result = NoResult
    /\ trace = <<>>

\* no concurrent calls are made
ConcIdle ==
    /\ cpc = [c \in Calls |-> "idle"]
    /\ mem = <<>>
    /\ pending = [c \in Calls |-> None]
    /\ seen = [c \in Calls |-> <<>>]
    /\ cresult = [c \in Calls |-> NoResult]

\* no run is started
RunIdle ==
    /\ metrics = None
    /\ now = 0
    /\ issued = 0
    /\ ret = [op |-> "", value |-> None]

(***************************************************************************)
(* The call                                                                *)
(***************************************************************************)
Init ==
    /\ ConcIdle
    /\ RunIdle
    /\ pc = "loop"
    /\ attempt = 0
    /\ last_exception = None
    /\ http_status = None
    /\ content = None
    /\ total_size = 0
    /\ content_hash = None
    /\ result = NoResult
    /\ trace = <<>>

\* The head of an iteration: the backoff sleep of attempts after the first
BeginAttempt ==
    /\ pc = "loop"
    /\ UNCHANGED <<concVars, runVars>>
    /\ InRange(attempt)
    /\ trace' = IF attempt > 0
                THEN Append(trace, EvSleep(attempt, Backoff(attempt)))
                ELSE trace
    /\ pc' = "get"
    /\ UNCHANGED <<attempt, last_exception, http_status, content, total_size,
                   content_hash, result>>

\* except clauses that leave http_status as the try block set it
StatusAfterException_Kept(status) == status

\* "http_status = None" of the three except clauses
StatusAfterException(status) == None

\* The except clauses: an exception raised in the try block at `events`,
\* the attempt having received status `code` (0: no response)
Except(exc, events, code) ==
    LET clause == ExceptClause(exc) IN
    IF clause = "uncaught"
    THEN /\ pc' = "raised"
         /\ trace' = Append(events, EvEnd(attempt, clause, code))
         /\ UNCHANGED <<attempt, last_exception, http_status, content, total_size,
                        content_hash, result>>
    ELSE /\ last_exception' = Some(Recorded(clause, exc))
         /\ http_status' = StatusAfterException(http_status)
         /\ attempt' = attempt + 1
         /\ pc' = "loop"
         /\ trace' = Append(events, EvEnd(attempt, clause, code))
         /\ UNCHANGED <<content, total_size, content_hash, result>>

\* requests.get raises
GetRaises ==
    /\ pc = "get"
    /\ UNCHANGED <<concVars, runVars>>
    /\ \E exc \in Exceptions : Except(exc, Append(trace, EvGet(attempt)), 0)

\* requests.get returns a response: the classification of its status code
Classify(code) ==
    LET events == Append(trace, EvGet(attempt)) IN
    /\ http_status' = Some(code)
    /\ IF IsTerminal(code)
       THEN /\ result' = TerminalOutcome(Some(code), attempt)
            /\ pc' = "returned"
            /\ trace' = Append(events, EvEnd(attempt, "terminal", code))
            /\ UNCHANGED <<attempt, last_exception>>
       ELSE IF IsTransient(code)
       THEN /\ last_exception' = Some(TransientMarker(code))
            /\ attempt' = attempt + 1
            /\ pc' = "loop"
            /\ trace' = Append(events, EvEnd(attempt, "transient", code))
            /\ UNCHANGED result
       ELSE /\ pc' = "stream"
            /\ trace' = events
            /\ UNCHANGED <<attempt, last_exception, result>>
    /\ UNCHANGED <<content, total_size, content_hash>>

GetResponds ==
    /\ pc = "get"
    /\ UNCHANGED <<concVars, runVars>>
    /\ \E code \in StatusCodes : Classify(code)

\* The ways a body can be delivered: its chunks, and the chunk at which the
\* iterator raises (0: never)
Deliveries == {d \in [body : Bodies, failAt : 0 .. MaxChunks + 1] : d.failAt <= Len(d.body) + 1}

\* The body is streamed to its end or to the size cap, then joined and hashed
ReadBody ==
    /\ pc = "stream"
    /\ UNCHANGED <<concVars, runVars>>
    /\ \E d \in Deliveries :
        LET s    == Stream(d.body, 1, <<>>, 0, d.failAt)
            text == Joined(s)
        IN  /\ ~s.raised
            /\ content' = Some(text)
            /\ total_size' = ContentSize(s, text)
            /\ content_hash' = Some(compute_hash(text))
            /\ pc' = "throttle"
            /\ trace' = Append(trace, EvBody(attempt, d.body, s.read))
            /\ UNCHANGED <<attempt, last_exception, http_status, result>>

\* an exception while streaming that ends the call instead of the attempt
ReadBodyRaises_NoRetry ==
    /\ pc = "stream"
    /\ UNCHANGED <<concVars, runVars>>
    /\ {d \in Deliveries : Stream(d.body, 1, <<>>, 0, d.failAt).raised} # {}
    /\ \E exc \in Exceptions :
        LET recorded == Some(Recorded(ExceptClause(exc), exc)) IN
        /\ last_exception' = recorded
        /\ http_status' = None
        /\ result' = ExhaustedOutcome(None, recorded)
        /\ pc' = "returned"
        /\ trace' = Append(trace, EvEnd(attempt, ExceptClause(exc), The(http_status)))
        /\ UNCHANGED <<attempt, content, total_size, content_hash>>

\* The streaming of the body raises
ReadBodyRaises ==
    /\ pc = "stream"
    /\ UNCHANGED <<concVars, runVars>>
    /\ {d \in Deliveries : Stream(d.body, 1, <<>>, 0, d.failAt).raised} # {}
    /\ \E exc \in Exceptions : Except(exc, trace, The(http_status))

\* The successful return without the pacing sleep
Throttle_NoSleep ==
    /\ pc = "throttle"
    /\ UNCHANGED <<concVars, runVars>>
    /\ result' = SuccessOutcome(The(content), The(content_hash), total_size,
                                http_status, attempt)
    /\ pc' = "returned"
    /\ trace' = Append(trace, EvEnd(attempt, "success", The(http_status)))
    /\ UNCHANGED <<attempt, last_exception, http_status, content, total_size,
                   content_hash>>

\* time.sleep(THROTTLE_DELAY) and the successful return
Throttle ==
    /\ pc = "throttle"
    /\ UNCHANGED <<concVars, runVars>>
    /\ result' = SuccessOutcome(The(content), The(content_hash), total_size,
                                http_status, attempt)
    /\ pc' = "returned"
    /\ trace' = trace \o <<EvSleep(attempt, THROTTLE_DELAY_MS),
                           EvEnd(attempt, "success", The(http_status))>>
    /\ UNCHANGED <<attempt, last_exception, http_status, content, total_size,
                   content_hash>>

\* The loop is over: the return after it
Exhausted ==
    /\ pc = "loop"
    /\ UNCHANGED <<concVars, runVars>>
    /\ ~InRange(attempt)
    /\ result' = ExhaustedOutcome(http_status, last_exception)
    /\ pc' = "returned"
    /\ UNCHANGED <<attempt, last_exception, http_status, content, total_size,
                   content_hash, trace>>

Next ==
    \/ BeginAttempt
    \/ GetRaises
    \/ GetResponds
    \/ ReadBody
    \/ ReadBodyRaises
    \/ Throttle
    \/ Exhausted

Spec == Init /\ [][Next]_vars

\* The call runs in one thread that nothing suspends for ever
FairSpec == Spec /\ WF_vars(Next)

(***************************************************************************)
(* Calls of fetch_document that run at the same time, each in its own      *)
(* thread.  Every name the function assigns lives in a storage cell; the   *)
(* steps of the calls interleave at the requests, the reads of the body    *)
(* and the sleeps.                                                         *)
(***************************************************************************)
\* a "global http_status" statement: the name is one module-level cell
Cell_Global(c, name) == IF name = "http_status" THEN <<0, name>> ELSE <<c, name>>

\* The cell of a name assigned in the function body: a local of the call
Cell(c, name) == <<c, name>>

Cells == {Cell(c, name) : c \in Calls, name \in Locals}

Read(c, name) == mem[Cell(c, name)]

\* the value of each name when the loop is entered
EntryValue(name) ==
    CASE name = "attempt"    -> 0
      [] name = "total_size" -> 0
      [] OTHER               -> None

\* What an attempt meets: requests.get raises exc, or it returns a response
\* with a status code, whose body arrives as `delivery` and raises bodyExc
\* if the delivery fails
RaiseEv(e) ==
    [exc |-> Some(e), code |-> 0, delivery |-> [body |-> <<>>, failAt |-> 0],
     bodyExc |-> None]

RespEv(code, d, e) == [exc |-> None, code |-> code, delivery |-> d, bodyExc |-> e]

\* the attempts the servers of the concurrent calls answer with
ConcEvents ==
    { RaiseEv([classes |-> {"Timeout"}, msg |-> <<>>]),
      RespEv(504, [body |-> <<>>, failAt |-> 0], None),
      RespEv(400, [body |-> <<>>, failAt |-> 0], None),
      RespEv(200, [body |-> <<Chunk(1)>>, failAt |-> 0], None),
      RespEv(200, [body |-> <<Chunk(1)>>, failAt |-> 2],
             Some([classes |-> {"ConnectionError"}, msg |-> <<"refused">>])) }

\* The outcome of a call that runs alone and meets `events`, one per
\* attempt, from attempt k on
RECURSIVE Alone(_, _, _, _)
Alone(k, last, status, events) ==
    IF ~InRange(k) THEN ExhaustedOutcome(status, last)
    ELSE LET ev == events[k + 1] IN
         IF ev.exc # None
         THEN Alone(k + 1, Some(Recorded(ExceptClause(The(ev.exc)), The(ev.exc))),
                    None, events)
         ELSE IF IsTerminal(ev.code) THEN TerminalOutcome(Some(ev.code), k)
         ELSE IF IsTransient(ev.code)
         THEN Alone(k + 1, Some(TransientMarker(ev.code)), Some(ev.code), events)
         ELSE LET s    == Stream(ev.delivery.body, 1, <<>>, 0, ev.delivery.failAt)
                  text == IF s.truncated THEN Append(s.chunks, Marker) ELSE s.chunks
                  size == IF s.truncated THEN Utf8Len(text) ELSE s.total_size
              IN  IF s.raised
                  THEN Alone(k + 1,
                             Some(Recorded(ExceptClause(The(ev.bodyExc)), The(ev.bodyExc))),
                             None, events)
                  ELSE SuccessOutcome(text, compute_hash(text), size, Some(ev.code), k)

InitConc ==
    /\ FetchIdle
    /\ RunIdle
    /\ cpc = [c \in Calls |-> "loop"]
    /\ mem = [cell \in Cells |-> EntryValue(cell[2])]
    /\ pending = [c \in Calls |-> None]
    /\ seen = [c \in Calls |-> <<>>]
    /\ cresult = [c \in Calls |-> NoResult]

\* The head of an iteration and its backoff sleep
CBegin(c) ==
    /\ cpc[c] = "loop"
    /\ InRange(Read(c, "attempt"))
    /\ cpc' = [cpc EXCEPT ![c] = "get"]
    /\ UNCHANGED <<mem, pending, seen, cresult, fetchVars, runVars>>

\* The except clauses of call c
CExcept(c, exc) ==
    LET clause == ExceptClause(exc) IN
    IF clause = "uncaught"
    THEN /\ cpc' = [cpc EXCEPT ![c] = "raised"]
         /\ UNCHANGED mem
    ELSE /\ mem' = [mem EXCEPT ![Cell(c, "last_exception")] = Some(Recorded(clause, exc)),
                               ![Cell(c, "http_status")] = None,
                               ![Cell(c, "attempt")] = @ + 1]
         /\ cpc' = [cpc EXCEPT ![c] = "loop"]

\* requests.get of call c raises, or returns a response that is classified
CGet(c) ==
    /\ cpc[c] = "get"
    /\ \E ev \in ConcEvents :
        /\ seen' = [seen EXCEPT ![c] = Append(@, ev)]
        /\ IF ev.exc # None
           THEN /\ CExcept(c, The(ev.exc))
                /\ UNCHANGED <<pending, cresult>>
           ELSE IF IsTerminal(ev.code)
           THEN /\ mem' = [mem EXCEPT ![Cell(c, "http_status")] = Some(ev.code)]
                /\ cresult' = [cresult EXCEPT ![c] =
                                  TerminalOutcome(Some(ev.code), Read(c, "attempt"))]
                /\ cpc' = [cpc EXCEPT ![c] = "returned"]
                /\ UNCHANGED pending
           ELSE IF IsTransient(ev.code)
           THEN /\ mem' = [mem EXCEPT ![Cell(c, "http_status")] = Some(ev.code),
                                      ![Cell(c, "last_exception")] =
                                          Some(TransientMarker(ev.code)),
                                      ![Cell(c, "attempt")] = @ + 1]
                /\ cpc' = [cpc EXCEPT ![c] = "loop"]
                /\ UNCHANGED <<pending, cresult>>
           ELSE /\ mem' = [mem EXCEPT ![Cell(c, "http_status")] = Some(ev.code)]
                /\ pending' = [pending EXCEPT ![c] = Some(ev)]
                /\ cpc' = [cpc EXCEPT ![c] = "stream"]
                /\ UNCHANGED cresult
    /\ UNCHANGED <<fetchVars, runVars>>

\* The body of the response of call c is streamed, joined and hashed, or the
\* streaming raises
CReadBody(c) ==
    /\ cpc[c] = "stream"
    /\ LET ev   == The(pending[c])
           s    == Stream(ev.delivery.body, 1, <<>>, 0, ev.delivery.failAt)
           text == IF s.truncated THEN Append(s.chunks, Marker) ELSE s.chunks
           size == IF s.truncated THEN Utf8Len(text) ELSE s.total_size
       IN  IF s.raised
           THEN CExcept(c, The(ev.bodyExc))
           ELSE /\ mem' = [mem EXCEPT ![Cell(c, "content")] = Some(text),
                                      ![Cell(c, "total_size")] = size,
                                      ![Cell(c, "content_hash")] = Some(compute_hash(text))]
                /\ cpc' = [cpc EXCEPT ![c] = "throttle"]
    /\ pending' = [pending EXCEPT ![c] = None]
    /\ UNCHANGED <<seen, cresult, fetchVars, runVars>>

\* The pacing sleep of call c and its successful return
CThrottle(c) ==
    /\ cpc[c] = "throttle"
    /\ cresult' = [cresult EXCEPT ![c] =
                      SuccessOutcome(The(Read(c, "content")), The(Read(c, "content_hash")),
                                     Read(c, "total_size"), Read(c, "http_status"),
                                     Read(c, "attempt"))]
    /\ cpc' = [cpc EXCEPT ![c] = "returned"]
    /\ UNCHANGED <<mem, pending, seen, fetchVars, runVars>>

\* The return of call c after its loop
CExhausted(c) ==
    /\ cpc[c] = "loop"
    /\ ~InRange(Read(c, "attempt"))
    /\ cresult' = [cresult EXCEPT ![c] =
                      ExhaustedOutcome(Read(c, "http_status"), Read(c, "last_exception"))]
    /\ cpc' = [cpc EXCEPT ![c] = "returned"]
    /\ UNCHANGED <<mem, pending, seen, fetchVars, runVars>>

NextConc ==
    \E c \in Calls :
        \/ CBegin(c)
        \/ CGet(c)
        \/ CReadBody(c)
        \/ CThrottle(c)
        \/ CExhausted(c)

SpecConc == InitConc /\ [][NextConc]_vars

(***************************************************************************)
(* Run metrics and alerts (pipeline/observability.py).  Times are in       *)
(* milliseconds, durations in hundredths of a second, rates in hundredths  *)
(* of a percent: the two-decimal values that round(x, 2) produces.         *)
(***************************************************************************)
FAILURE_RATE_WARNING == 1000
FAILURE_RATE_CRITICAL == 2500
EMPTY_RESULT_MIN_ROWS == 1
PERF_DEGRADATION_FACTOR == 2

MaxTicks == 1
MaxUuids == 4
TickMs == 1004

Stages == {"ingestion", "extraction"}
DriverStatuses == {"failed"}
Counters == {"urls_discovered", "urls_inserted", "urls_updated", "fetch_success",
             "fetch_failed", "fetch_timeout", "fetch_skipped"}

\* the values a driver assigns to a counter; urls_discovered, which neither
\* finish_pipeline_run nor evaluate_alerts reads, keeps its initial value
CounterValues(k) ==
    CASE k = "fetch_success"   -> {0, 3, 9, 10}
      [] k = "urls_discovered" -> {0}
      [] OTHER                 -> {0, 1}

\* historical average durations handed to evaluate_alerts, absent or in
\* hundredths of a second
Histories == {None, Some(0), Some(0 - 50), Some(50), Some(51)}

\* round(n / d, 0) of Python 3: to the nearest integer, ties to even
RoundHalfEven(n, d) ==
    LET q == n \div d
        r == n % d
    IN  IF 2 * r < d THEN q
        ELSE IF 2 * r > d THEN q + 1
        ELSE IF q % 2 = 0 THEN q ELSE q + 1

\* start that leaves the skipped counter of an earlier run in place
start_pipeline_run_SkippedKept(stage, id, t) ==
    [run_id |-> id, run_start |-> t, run_end |-> None, duration_seconds |-> None,
     stage |-> stage, urls_discovered |-> 0, urls_inserted |-> 0, urls_updated |-> 0,
     fetch_success |-> 0, fetch_failed |-> 0, fetch_timeout |-> 0,
     fetch_skipped |-> IF metrics = None THEN 0 ELSE (The(metrics)).fetch_skipped,
     failure_rate_pct |-> None, avg_response_ms |-> None, status |-> "running",
     error_message |-> None]

\* start that presets the failure rate to 0.0
start_pipeline_run_RatePreset(stage, id, t) ==
    [run_id |-> id, run_start |-> t, run_end |-> None, duration_seconds |-> None,
     stage |-> stage, urls_discovered |-> 0, urls_inserted |-> 0, urls_updated |-> 0,
     fetch_success |-> 0, fetch_failed |-> 0, fetch_timeout |-> 0, fetch_skipped |-> 0,
     failure_rate_pct |-> Some(0), avg_response_ms |-> None, status |-> "running",
     error_message |-> None]

\* The record of a new run; id is the uuid4 drawn, t the clock
start_pipeline_run(stage, id, t) ==
    [run_id |-> id, run_start |-> t, run_end |-> None, duration_seconds |-> None,
     stage |-> stage, urls_discovered |-> 0, urls_inserted |-> 0, urls_updated |-> 0,
     fetch_success |-> 0, fetch_failed |-> 0, fetch_timeout |-> 0, fetch_skipped |-> 0,
     failure_rate_pct |-> None, avg_response_ms |-> None, status |-> "running",
     error_message |-> None]

\* round(elapsed, 2) of the seconds from run_start to t
Duration(m, t) == RoundHalfEven(t - m.run_start, 10)

\* the rate without the timeouts in the numerator
FailureRate_NoTimeouts(m) ==
    LET total_fetches == m.fetch_success + m.fetch_failed + m.fetch_timeout
    IN  IF total_fetches > 0
        THEN RoundHalfEven(m.fetch_failed * 100 * 100, total_fetches)
        ELSE 0

\* failure_rate_pct as finish_pipeline_run computes it
FailureRate(m) ==
    LET total_fetches == m.fetch_success + m.fetch_failed + m.fetch_timeout
    IN  IF total_fetches > 0
        THEN RoundHalfEven((m.fetch_failed + m.fetch_timeout) * 100 * 100, total_fetches)
        ELSE 0

\* finalization that always marks the run completed
FinalStatus_Always(status) == "completed"

\* finalization that flips a status that is not running back to running
FinalStatus_Reopen(status) == IF status = "running" THEN "completed" ELSE "running"

\* The status finish_pipeline_run leaves
FinalStatus(status) == IF status = "running" THEN "completed" ELSE status

\* The record after finish_pipeline_run at clock t
finish_pipeline_run(m, t) ==
    [m EXCEPT !.run_end = Some(t),
              !.duration_seconds = Some(Duration(m, t)),
              !.failure_rate_pct = Some(FailureRate(m)),
              !.status = FinalStatus(m.status)]

\* _make_alert: id is the uuid4 drawn, t the clock
make_alert(id, run_id, t, severity, category, condition, message, metric_value, threshold) ==
    [alert_id |-> id, run_id |-> run_id, created_at |-> t, severity |-> severity,
     category |-> category, condition_name |-> condition, message |-> message,
     metric_value |-> metric_value, threshold |-> threshold]

\* a missing rate taken as a full failure
OrZero_MissingIsFull(opt) == IF opt = None THEN 100 * 100 ELSE The(opt)

\* metrics.get(key, 0.0) or 0.0
OrZero(opt) == IF opt = None THEN 0 ELSE The(opt)

\* a number formatted with one decimal (":.1f"), in tenths; x = n / d hundredths
OneDecimal(n, d) == RoundHalfEven(n, 10 * d)

\* the failure-rate condition with a warning threshold that is exclusive
FailureRateAlerts_Exclusive(m, base, t) ==
    LET failure_rate == OrZero(m.failure_rate_pct) IN
    IF failure_rate >= FAILURE_RATE_CRITICAL
    THEN << make_alert(base + 1, m.run_id, t, "CRITICAL", "failure_rate",
                       "failure_rate_critical",
                       <<"exceeds critical threshold", OneDecimal(failure_rate, 1),
                         FAILURE_RATE_CRITICAL>>,
                       failure_rate, FAILURE_RATE_CRITICAL) >>
    ELSE IF failure_rate > FAILURE_RATE_WARNING
    THEN << make_alert(base + 1, m.run_id, t, "WARNING", "failure_rate",
                       "failure_rate_warning",
                       <<"exceeds warning threshold", OneDecimal(failure_rate, 1),
                         FAILURE_RATE_WARNING>>,
                       failure_rate, FAILURE_RATE_WARNING) >>
    ELSE << >>

\* 1. Anomalous failure rate
FailureRateAlerts(m, base, t) ==
    LET failure_rate == OrZero(m.failure_rate_pct) IN
    IF failure_rate >= FAILURE_RATE_CRITICAL
    THEN << make_alert(base + 1, m.run_id, t, "CRITICAL", "failure_rate",
                       "failure_rate_critical",
                       <<"exceeds critical threshold", OneDecimal(failure_rate, 1),
                         FAILURE_RATE_CRITICAL>>,
                       failure_rate, FAILURE_RATE_CRITICAL) >>
    ELSE IF failure_rate >= FAILURE_RATE_WARNING
    THEN << make_alert(base + 1, m.run_id, t, "WARNING", "failure_rate",
                       "failure_rate_warning",
                       <<"exceeds warning threshold", OneDecimal(failure_rate, 1),
                         FAILURE_RATE_WARNING>>,
                       failure_rate, FAILURE_RATE_WARNING) >>
    ELSE << >>

\* the empty-result condition counting the inserted rows only
EmptyResultAlerts_InsertedOnly(m, base, t) ==
    LET total_rows == m.urls_inserted IN
    IF total_rows < EMPTY_RESULT_MIN_ROWS
    THEN << make_alert(base + 1, m.run_id, t, "CRITICAL", "empty_results",
                       "empty_result_set",
                       <<"rows produced, minimum expected", total_rows,
                         EMPTY_RESULT_MIN_ROWS>>,
                       total_rows, EMPTY_RESULT_MIN_ROWS) >>
    ELSE << >>

\* 2. Empty result set
EmptyResultAlerts(m, base, t) ==
    LET total_rows == m.urls_inserted + m.urls_updated IN
    IF total_rows < EMPTY_RESULT_MIN_ROWS
    THEN << make_alert(base + 1, m.run_id, t, "CRITICAL", "empty_results",
                       "empty_result_set",
                       <<"rows produced, minimum expected", total_rows,
                         EMPTY_RESULT_MIN_ROWS>>,
                       total_rows, EMPTY_RESULT_MIN_ROWS) >>
    ELSE << >>

\* the performance condition with a factor that is exclusive
PerformanceAlerts_Exclusive(m, hist, base, t) ==
    IF m.duration_seconds # None /\ hist # None /\ The(hist) > 0
    THEN LET duration == The(m.duration_seconds)
             avg      == The(hist)
         IN  IF duration > PERF_DEGRADATION_FACTOR * avg
             THEN << make_alert(base + 1, m.run_id, t, "WARNING", "performance",
                                "performance_degradation",
                                <<"run took, times the historical average",
                                  OneDecimal(duration, 1), OneDecimal(duration * 100, avg),
                                  OneDecimal(avg, 1)>>,
                                duration, avg * PERF_DEGRADATION_FACTOR) >>
             ELSE << >>
    ELSE << >>

\* 3. Performance degradation: ratio = duration / historical_avg_duration is
\* compared with the factor, ratio >= factor being duration >= factor * avg
\* for the positive avg the guard has established
PerformanceAlerts(m, hist, base, t) ==
    IF m.duration_seconds # None /\ hist # None /\ The(hist) > 0
    THEN LET duration == The(m.duration_seconds)
             avg      == The(hist)
         IN  IF duration >= PERF_DEGRADATION_FACTOR * avg
             THEN << make_alert(base + 1, m.run_id, t, "WARNING", "performance",
                                "performance_degradation",
                                <<"run took, times the historical average",
                                  OneDecimal(duration, 1), OneDecimal(duration * 100, avg),
                                  OneDecimal(avg, 1)>>,
                                duration, avg * PERF_DEGRADATION_FACTOR) >>
             ELSE << >>
    ELSE << >>

\* evaluation that skips the empty-result condition once the failure rate
\* has raised an alert
evaluate_alerts_Chained(m, hist, base, t) ==
    LET a1 == FailureRateAlerts(m, base, t)
        a2 == IF a1 # << >> THEN a1 ELSE EmptyResultAlerts(m, base, t)
    IN  a2 \o PerformanceAlerts(m, hist, base + Len(a2), t)

\* The list evaluate_alerts returns; base is the number of uuid4 drawn so far
evaluate_alerts(m, hist, base, t) ==
    LET a1 == FailureRateAlerts(m, base, t)
        a2 == a1 \o EmptyResultAlerts(m, base + Len(a1), t)
    IN  a2 \o PerformanceAlerts(m, hist, base + Len(a2), t)

NoRet == [op |-> "", stage |-> "", hist |-> None, row |-> None, alerts |-> << >>]

InitRun ==
    /\ FetchIdle
    /\ ConcIdle
    /\ metrics = None
    /\ now = 0
    /\ issued = 0
    /\ ret = NoRet

\* The clock advances
Tick ==
    /\ now < MaxTicks * TickMs
    /\ now' = now + TickMs
    /\ ret' = NoRet
    /\ UNCHANGED <<metrics, issued, fetchVars, concVars>>

\* A driver starts a run and holds the record returned
StartRun(stage) ==
    /\ issued < MaxUuids
    /\ metrics' = Some(start_pipeline_run(stage, issued + 1, now))
    /\ issued' = issued + 1
    /\ ret' = [NoRet EXCEPT !.op = "start_pipeline_run", !.stage = stage]
    /\ UNCHANGED <<now, fetchVars, concVars>>

\* The driver assigns a counter of the record while the run is open
SetCounter(k, v) ==
    /\ metrics # None
    /\ (The(metrics)).run_end = None
    /\ (The(metrics))[k] # v
    /\ metrics' = Some([The(metrics) EXCEPT ![k] = v])
    /\ ret' = NoRet
    /\ UNCHANGED <<now, issued, fetchVars, concVars>>

\* The driver assigns the status of the record
SetStatus(st) ==
    /\ metrics # None
    /\ (The(metrics)).status # st
    /\ metrics' = Some([The(metrics) EXCEPT !.status = st])
    /\ ret' = NoRet
    /\ UNCHANGED <<now, issued, fetchVars, concVars>>

\* The driver finalizes the record, which is updated in place and returned
FinishRun ==
    /\ metrics # None
    /\ metrics' = Some(finish_pipeline_run(The(metrics), now))
    /\ ret' = [NoRet EXCEPT !.op = "finish_pipeline_run"]
    /\ UNCHANGED <<now, issued, fetchVars, concVars>>

\* evaluation that stores the rate it read back into the record
EvaluateAlerts_StoresRate(hist) ==
    /\ metrics # None
    /\ LET alerts == evaluate_alerts(The(metrics), hist, issued, now) IN
        /\ issued + Len(alerts) <= MaxUuids
        /\ issued' = issued + Len(alerts)
        /\ ret' = [NoRet EXCEPT !.op = "evaluate_alerts", !.hist = hist, !.alerts = alerts]
    /\ metrics' = Some([The(metrics) EXCEPT
                           !.failure_rate_pct = Some(OrZero((The(metrics)).failure_rate_pct))])
    /\ UNCHANGED <<now, fetchVars, concVars>>

\* The driver evaluates the alerts of the record
EvaluateAlerts(hist) ==
    /\ metrics # None
    /\ LET alerts == evaluate_alerts(The(metrics), hist, issued, now) IN
        /\ issued + Len(alerts) <= MaxUuids
        /\ issued' = issued + Len(alerts)
        /\ ret' = [NoRet EXCEPT !.op = "evaluate_alerts", !.hist = hist, !.alerts = alerts]
    /\ UNCHANGED <<metrics, now, fetchVars, concVars>>

NextRun ==
    \/ Tick
    \/ \E stage \in Stages : StartRun(stage)
    \/ \E k \in Counters : \E v \in CounterValues(k) : SetCounter(k, v)
    \/ \E st \in DriverStatuses : SetStatus(st)
    \/ FinishRun
    \/ \E hist \in Histories : EvaluateAlerts(hist)

SpecRun == InitRun /\ [][NextRun]_vars

(***************************************************************************)
(* Runs of many fetches: the record of a started run whose counters the    *)
(* driver has assigned is finalized and evaluated.                         *)
(***************************************************************************)
\* counts of successful and of failed fetches of large runs, among them
\* 200 of 2001 (9.995...%) and 1250 of 5001 (24.995...%)
LargeSuccesses == {9, 1801, 3751}
LargeFailures == {0, 1, 200, 1250}

LargeRuns ==
    {[start_pipeline_run(stage, 1, 0) EXCEPT !.fetch_success = s, !.fetch_failed = f,
                                             !.fetch_timeout = t, !.urls_inserted = u] :
        stage \in Stages, s \in LargeSuccesses, f \in LargeFailures,
        t \in {0, 1}, u \in {0, 1}}

InitRatio ==
    /\ FetchIdle
    /\ ConcIdle
    /\ metrics \in {Some(m) : m \in LargeRuns}
    /\ now = 0
    /\ issued = 1
    /\ ret = NoRet

NextRatio ==
    \/ Tick
    \/ FinishRun
    \/ \E hist \in Histories : EvaluateAlerts(hist)

SpecRatio == InitRatio /\ [][NextRatio]_vars

(***************************************************************************)
(* Staleness of the last completed run (evaluate_staleness_alert).  A      *)
(* timestamp is a wall-clock reading in milliseconds with the offset of    *)
(* its timezone from UTC in minutes, or with no timezone.                  *)
(***************************************************************************)
STALENESS_WARNING_HOURS == 24
STALENESS_CRITICAL_HOURS == 72

MsPerHour == 3600 * 1000
MsPerMinute == 60 * 1000

MaxStaleHours == 73

\* the steps by which the clock advances between staleness checks
StaleSteps == {1 * MsPerHour, 24 * MsPerHour, 48 * MsPerHour}

Timestamp(clock, tz) == [clock |-> clock, tz |-> tz]

\* RUN_END values the query returns: a minute before, at and a minute after
\* the origin of the clock, naive or aware
LastRuns ==
    {Timestamp(clock, tz) : clock \in {0 - MsPerMinute, 0, MsPerMinute},
                            tz \in {None, Some(0), Some(60)}}

\* cursor.fetchone(): no row, a row holding NULL, a row holding a timestamp
Rows == {None, Some(None)} \cup {Some(Some(ts)) : ts \in LastRuns}

\* a naive timestamp read as a local time one hour ahead of UTC
Instant_NaiveLocal(ts) ==
    IF ts.tz = None THEN ts.clock - 60 * MsPerMinute
    ELSE ts.clock - The(ts.tz) * MsPerMinute

\* The instant of a timestamp on the UTC clock: a naive one gets tzinfo UTC
Instant(ts) ==
    IF ts.tz = None THEN ts.clock
    ELSE ts.clock - The(ts.tz) * MsPerMinute

\* row is None or row[0] is None
NoCompletedRun(row) == row = None \/ The(row) = None

\* the staleness conditions with a warning threshold that is exclusive
StalenessAlerts_Exclusive(since, base, t) ==
    IF since >= STALENESS_CRITICAL_HOURS * MsPerHour
    THEN << make_alert(base + 1, None, t, "CRITICAL", "staleness",
                       "pipeline_stale_critical",
                       <<"last successful run, critical threshold",
                         RoundHalfEven(since, MsPerHour \div 10), STALENESS_CRITICAL_HOURS>>,
                       Some(since), Some(STALENESS_CRITICAL_HOURS * MsPerHour)) >>
    ELSE IF since > STALENESS_WARNING_HOURS * MsPerHour
    THEN << make_alert(base + 1, None, t, "WARNING", "staleness",
                       "pipeline_stale_warning",
                       <<"last successful run, warning threshold",
                         RoundHalfEven(since, MsPerHour \div 10), STALENESS_WARNING_HOURS>>,
                       Some(since), Some(STALENESS_WARNING_HOURS * MsPerHour)) >>
    ELSE << >>

\* The alerts for a run that ended `since` milliseconds ago; hours_since is
\* since / MsPerHour, and metric value and threshold are kept in milliseconds
StalenessAlerts(since, base, t) ==
    IF since >= STALENESS_CRITICAL_HOURS * MsPerHour
    THEN << make_alert(base + 1, None, t, "CRITICAL", "staleness",
                       "pipeline_stale_critical",
                       <<"last successful run, critical threshold",
                         RoundHalfEven(since, MsPerHour \div 10), STALENESS_CRITICAL_HOURS>>,
                       Some(since), Some(STALENESS_CRITICAL_HOURS * MsPerHour)) >>
    ELSE IF since >= STALENESS_WARNING_HOURS * MsPerHour
    THEN << make_alert(base + 1, None, t, "WARNING", "staleness",
                       "pipeline_stale_warning",
                       <<"last successful run, warning threshold",
                         RoundHalfEven(since, MsPerHour \div 10), STALENESS_WARNING_HOURS>>,
                       Some(since), Some(STALENESS_WARNING_HOURS * MsPerHour)) >>
    ELSE << >>

\* the check that stays silent when there is no completed run
evaluate_staleness_alert_SilentWhenNoRun(row, base, t) ==
    IF NoCompletedRun(row)
    THEN << >>
    ELSE StalenessAlerts(t - Instant(The(The(row))), base, t)

\* The list evaluate_staleness_alert returns for the row the cursor yields
evaluate_staleness_alert(row, base, t) ==
    IF NoCompletedRun(row)
    THEN << make_alert(base + 1, None, t, "CRITICAL", "staleness", "no_completed_runs",
                       <<"No completed pipeline runs found in PIPELINE_METRICS">>,
                       None, None) >>
    ELSE StalenessAlerts(t - Instant(The(The(row))), base, t)

InitStale ==
    /\ FetchIdle
    /\ ConcIdle
    /\ metrics = None
    /\ now = 0
    /\ issued = 0
    /\ ret = NoRet

\* Time passes between two checks
StaleTick(d) ==
    /\ now + d <= MaxStaleHours * MsPerHour
    /\ now' = now + d
    /\ ret' = NoRet
    /\ UNCHANGED <<metrics, issued, fetchVars, concVars>>

\* The monitor runs the staleness check against the metrics table
EvaluateStaleness(row) ==
    /\ LET alerts == evaluate_staleness_alert(row, issued, now) IN
        /\ issued + Len(alerts) <= MaxUuids
        /\ issued' = issued + Len(alerts)
        /\ ret' = [NoRet EXCEPT !.op = "evaluate_staleness_alert", !.row = row,
                                !.alerts = alerts]
    /\ UNCHANGED <<metrics, now, fetchVars, concVars>>

NextStale ==
    \/ \E d \in StaleSteps : StaleTick(d)
    \/ \E row \in Rows : EvaluateStaleness(row)

SpecStale == InitStale /\ [][NextStale]_vars

(***************************************************************************)
(* What a call did, read off its trace                                     *)
(***************************************************************************)
IsEnd(e) == e.ev = "end"

IsGet(e) == e.ev = "get"

IsBackoffSleep(e) == e.ev = "sleep" /\ e.val # THROTTLE_DELAY_MS

IsThrottleSleep(e) == e.ev = "sleep" /\ e.val = THROTTLE_DELAY_MS

\* the ends of the attempts, the requests issued, the sleeps, in order
Ends == SelectSeq(trace, IsEnd)

Gets == SelectSeq(trace, IsGet)

BackoffSleeps == SelectSeq(trace, IsBackoffSleep)

ThrottleSleeps == SelectSeq(trace, IsThrottleSleep)

Returned == pc = "returned"

\* the attempt ended in an except clause
ByException(e) == e.kind \in {"timeout", "connection_error", "exception"}

\* the attempt received a transient status
GotTransient(e) == e.val \in TRANSIENT_STATUS_CODES

\* the attempt received a status >= 400 outside the transient set
GotTerminal(e) == e.val >= 400 /\ e.val \notin TRANSIENT_STATUS_CODES

\* the attempt received a status below 400
GotBelow400(e) == e.val > 0 /\ e.val < 400

\* every attempt was used and the last one neither succeeded nor met a
\* terminal status
AllUsedUp ==
    /\ Returned
    /\ Len(Ends) = MAX_RETRIES + 1
    /\ Ends[MAX_RETRIES + 1].kind \notin {"success", "terminal"}

(***************************************************************************)
(* C1: fetch_document never lets an exception escape: whatever happens on  *)
(* each attempt, the call does not end by raising, and what it returns has *)
(* fetch_status success, failed or timeout.                                *)
(***************************************************************************)
C1_NoExceptionEscapes ==
    /\ pc # "raised"
    /\ Returned => result.fetch_status \in {"success", "failed", "timeout"}

\* a call that returned after attempts ended by an exception of neither
\* class, by a connection failure and by a timeout, one of them while the
\* body was streamed
C1_Witness ==
    /\ Returned
    /\ \E i, j, k \in DOMAIN Ends :
        /\ Ends[i].kind = "exception"
        /\ Ends[j].kind = "connection_error"
        /\ Ends[k].kind = "timeout"
        /\ Ends[i].val > 0

(***************************************************************************)
(* C2: every call terminates, and it never issues more than                *)
(* MAX_RETRIES + 1 requests.                                               *)
(***************************************************************************)
C2_BoundedTermination ==
    /\ [](Len(Gets) <= MAX_RETRIES + 1)
    /\ <>Returned

\* a call that returned after MAX_RETRIES + 1 requests
C2_Witness == Returned /\ Len(Gets) = MAX_RETRIES + 1

(***************************************************************************)
(* C3: a response with a status >= 400 outside the transient set, at       *)
(* attempt k, ends the call at once: nothing follows it, the outcome is    *)
(* failed with retry_count = k, http_status the code, and no content.      *)
(***************************************************************************)
C3_TerminalStatusEndsCall ==
    \A i \in DOMAIN Ends :
        GotTerminal(Ends[i]) =>
            /\ Ends[i].attempt = i - 1
            /\ i = Len(Ends)
            /\ trace[Len(trace)] = Ends[i]
            /\ Returned
            /\ result.fetch_status = "failed"
            /\ result.retry_count = i - 1
            /\ result.http_status = Some(Ends[i].val)
            /\ result.content = None

\* a terminal status met on the third attempt
C3_Witness ==
    /\ Returned
    /\ Len(Ends) = 3
    /\ GotTerminal(Ends[3])

(***************************************************************************)
(* C4, as stated: if the first j attempts each end in a transient status   *)
(* and attempt j returns a status below 400, the call returns success with *)
(* retry_count = j.                                                        *)
(***************************************************************************)
C4_AsStated ==
    \A j \in 1 .. MAX_RETRIES :
        ( /\ Returned
          /\ Len(Ends) >= j + 1
          /\ \A i \in 1 .. j : GotTransient(Ends[i])
          /\ GotBelow400(Ends[j + 1]) )
        => /\ result.fetch_status = "success"
           /\ result.retry_count = j

(***************************************************************************)
(* C4, amended: if the first j attempts each end in a transient status and *)
(* attempt j returns a status below 400 and its body is read without an    *)
(* exception, the call returns success with retry_count = j; each          *)
(* transient status consumes exactly one retry slot, and it is never the   *)
(* final outcome while slots remain.                                       *)
(***************************************************************************)
C4_TransientThenSuccess ==
    /\ \A j \in 1 .. MAX_RETRIES :
        ( /\ Returned
          /\ Len(Ends) >= j + 1
          /\ \A i \in 1 .. j : GotTransient(Ends[i])
          /\ GotBelow400(Ends[j + 1])
          /\ ~ByException(Ends[j + 1]) )
        => /\ result.fetch_status = "success"
           /\ result.retry_count = j
    /\ \A i \in DOMAIN Ends :
        /\ Ends[i].attempt = i - 1
        /\ (Returned /\ GotTransient(Ends[i]) /\ i <= MAX_RETRIES) => i < Len(Ends)

\* two transient statuses, then a success
C4_Witness ==
    /\ Returned
    /\ Len(Ends) = 3
    /\ GotTransient(Ends[1])
    /\ GotTransient(Ends[2])
    /\ GotBelow400(Ends[3])
    /\ result.fetch_status = "success"

(***************************************************************************)
(* C5: the request of attempt k > 0 comes right after one backoff sleep of *)
(* BACKOFF_BASE^k seconds, which comes right after the end of attempt      *)
(* k - 1; nothing precedes the request of attempt 0; so the backoff sleeps *)
(* of a call are BACKOFF_BASE^1, BACKOFF_BASE^2, ... in this order, one    *)
(* per retry.                                                              *)
(***************************************************************************)
C5_BackoffBeforeRetry ==
    /\ \A i \in DOMAIN trace :
        IsGet(trace[i]) =>
            IF trace[i].attempt = 0
            THEN i = 1
            ELSE /\ i >= 3
                 /\ trace[i - 1].ev = "sleep"
                 /\ trace[i - 1].val = Pow(BACKOFF_BASE, trace[i].attempt) * 1000
                 /\ IsEnd(trace[i - 2])
                 /\ trace[i - 2].attempt = trace[i].attempt - 1
    /\ \A n \in DOMAIN BackoffSleeps :
        BackoffSleeps[n].val = Pow(BACKOFF_BASE, n) * 1000
    /\ Returned => Len(BackoffSleeps) = Len(Gets) - 1

\* a call that went through every retry
C5_Witness == Returned /\ Len(BackoffSleeps) = MAX_RETRIES

(***************************************************************************)
(* C6: a call sleeps THROTTLE_DELAY exactly once if it returns success,    *)
(* after the body is consumed and right before the return, and never       *)
(* otherwise; every other sleep is a backoff sleep before a request.       *)
(***************************************************************************)
C6_ThrottleIffSuccess ==
    /\ Len(ThrottleSleeps) = IF Returned /\ result.fetch_status = "success" THEN 1 ELSE 0
    /\ \A i \in DOMAIN trace :
        /\ IsThrottleSleep(trace[i]) =>
            /\ i = Len(trace) - 1
            /\ i >= 2
            /\ trace[i - 1].ev = "body"
            /\ trace[i + 1].kind = "success"
        /\ IsBackoffSleep(trace[i]) =>
            IF i = Len(trace) THEN pc = "get" ELSE IsGet(trace[i + 1])

\* a success on the third attempt
C6_Witness ==
    /\ Returned
    /\ result.fetch_status = "success"
    /\ result.retry_count = 2

(***************************************************************************)
(* C7: when every one of the MAX_RETRIES + 1 attempts ends in a transient  *)
(* status, the outcome is failed with retry_count = MAX_RETRIES, no        *)
(* content, and the status code of the last attempt.                       *)
(***************************************************************************)
C7_AllTransientFails ==
    ( /\ Returned
      /\ Len(Ends) = MAX_RETRIES + 1
      /\ \A i \in DOMAIN Ends : GotTransient(Ends[i]) )
    => /\ result.fetch_status = "failed"
       /\ result.retry_count = MAX_RETRIES
       /\ result.content = None
       /\ result.http_status = Some(Ends[MAX_RETRIES + 1].val)

\* four transient statuses, the first and the last different
C7_Witness ==
    /\ Returned
    /\ Len(Ends) = MAX_RETRIES + 1
    /\ \A i \in DOMAIN Ends : GotTransient(Ends[i])
    /\ Ends[1].val = 504
    /\ Ends[MAX_RETRIES + 1].val = 408

(***************************************************************************)
(* C8: when all attempts are used up, the outcome is timeout if and only   *)
(* if the last attempt's recorded error was a request timeout, and failed  *)
(* otherwise, with retry_count = MAX_RETRIES.                              *)
(***************************************************************************)
C8_TimeoutIffLastTimedOut ==
    AllUsedUp =>
        /\ result.fetch_status =
             IF Ends[MAX_RETRIES + 1].kind = "timeout" THEN "timeout" ELSE "failed"
        /\ result.retry_count = MAX_RETRIES

(***************************************************************************)
(* C9: every outcome is well formed: content is present exactly on         *)
(* success, content_hash exactly when content is, and a failed or timeout  *)
(* outcome has content_size_bytes = 0.                                     *)
(***************************************************************************)
C9_WellFormedOutcome ==
    Returned =>
        /\ (result.content # None) <=> (result.fetch_status = "success")
        /\ (result.content_hash # None) <=> (result.content # None)
        /\ result.fetch_status \in {"failed", "timeout"} => result.content_size_bytes = 0

\* a success whose document is empty: content is present, and so is its hash
C9_Witness ==
    /\ Returned
    /\ result.fetch_status = "success"
    /\ result.content = Some(<<>>)

(***************************************************************************)
(* C10: retry_count is the number of requests issued minus one, which is   *)
(* the number of backoff sleeps; it lies in 0 .. MAX_RETRIES and is 0      *)
(* exactly when the first attempt succeeded or met a terminal status.      *)
(***************************************************************************)
C10_RetryCountIsRetries ==
    Returned =>
        /\ result.retry_count = Len(Gets) - 1
        /\ result.retry_count = Len(BackoffSleeps)
        /\ result.retry_count \in 0 .. MAX_RETRIES
        /\ (result.retry_count = 0) <=> (Ends[1].kind \in {"success", "terminal"})

\* every attempt timed out
C10_Witness ==
    /\ AllUsedUp
    /\ result.fetch_status = "timeout"
    /\ result.retry_count = MAX_RETRIES

(***************************************************************************)
(* C11: concurrent calls share no mutable state: under every interleaving  *)
(* of their steps each call returns what it returns when it runs alone     *)
(* against the same per-attempt events.                                    *)
(***************************************************************************)
C11_SameOutcomeAsAlone ==
    \A c \in Calls :
        /\ cpc[c] # "raised"
        /\ cpc[c] = "returned" => cresult[c] = Alone(0, None, None, seen[c])

\* call 2 returned a success on its second attempt while call 1, which has
\* met other events, is between the read of its body and its return
C11_Witness ==
    /\ cpc[2] = "returned"
    /\ cresult[2].fetch_status = "success"
    /\ cresult[2].retry_count = 1
    /\ cpc[1] = "throttle"
    /\ Len(seen[1]) = 3
    /\ seen[1][1] # seen[2][1]

(***************************************************************************)
(* What the last operation on the run record was                           *)
(***************************************************************************)
IsStart == ret.op = "start_pipeline_run"
IsFinish == ret.op = "finish_pipeline_run"
IsEval == ret.op = "evaluate_alerts"

Absent(m) == m.run_end = None /\ m.duration_seconds = None /\ m.failure_rate_pct = None
Present(m) == m.run_end # None /\ m.duration_seconds # None /\ m.failure_rate_pct # None

\* the alerts of one category, in the order returned
OfCategory(alerts, category) == SelectSeq(alerts, LAMBDA a : a.category = category)

(***************************************************************************)
(* C12: start_pipeline_run(stage) returns a record with status running,    *)
(* the given stage, a run_id no earlier draw produced, run_start at the    *)
(* clock, the seven counters 0, and run_end, duration_seconds and          *)
(* failure_rate_pct absent.                                                *)
(***************************************************************************)
C12_StartReturnsNewRun ==
    [][ret'.op = "start_pipeline_run" =>
        LET m == The(metrics') IN
        /\ m.status = "running"
        /\ m.stage = ret'.stage
        /\ m.run_id \notin 1..issued
        /\ metrics # None => m.run_id # (The(metrics)).run_id
        /\ m.run_start = now'
        /\ \A k \in Counters : m[k] = 0
        /\ Absent(m)]_vars

\* a second run started late, after a first run had counted and finished
C12_Witness ==
    /\ IsStart
    /\ (The(metrics)).run_id > 1
    /\ (The(metrics)).run_start > 0
    /\ (The(metrics)).stage = "extraction"

(***************************************************************************)
(* C13: finish_pipeline_run makes the status completed exactly when it was *)
(* running at the call; any other status is left as it was.                *)
(***************************************************************************)
C13_CompletedIffRunning ==
    [][ret'.op = "finish_pipeline_run" =>
        IF (The(metrics)).status = "running"
        THEN (The(metrics')).status = "completed"
        ELSE (The(metrics')).status = (The(metrics)).status]_vars

\* a finalized record whose status the driver had set to failed
C13_Witness ==
    /\ IsFinish
    /\ (The(metrics)).status = "failed"
    /\ (The(metrics)).run_end = Some(0)

(***************************************************************************)
(* C14: after finish_pipeline_run, failure_rate_pct is                     *)
(* (fetch_failed + fetch_timeout) / (fetch_success + fetch_failed +        *)
(* fetch_timeout) * 100 rounded to two decimals when that total is         *)
(* positive, and 0.0 when it is 0; fetch_skipped takes no part.  A value r *)
(* in hundredths is x = n / d rounded iff |r * d - n| * 2 <= d.            *)
(***************************************************************************)
C14_FailureRateFormula ==
    IsFinish =>
        LET m     == The(metrics)
            fails == m.fetch_failed + m.fetch_timeout
            total == m.fetch_success + m.fetch_failed + m.fetch_timeout
            r     == The(m.failure_rate_pct)
            diff  == r * total - fails * 100 * 100
        IN  /\ m.failure_rate_pct # None
            /\ total = 0 => r = 0
            /\ total > 0 => (IF diff < 0 THEN 0 - diff ELSE diff) * 2 <= total

\* 2 of 12 fetches failed, one of them by timeout, with a skipped fetch:
\* 16.666... is stored as 16.67
C14_Witness ==
    /\ IsFinish
    /\ (The(metrics)).fetch_success = 10
    /\ (The(metrics)).fetch_failed = 1
    /\ (The(metrics)).fetch_timeout = 1
    /\ (The(metrics)).fetch_skipped = 1
    /\ (The(metrics)).failure_rate_pct = Some(1667)

(***************************************************************************)
(* C15: a run is never reopened: once the status of a record is no longer  *)
(* running, no finish_pipeline_run call makes it running again, and a      *)
(* completed record stays completed when it is finalized again.            *)
(***************************************************************************)
C15_NeverReopened ==
    [][(/\ ret'.op = "finish_pipeline_run"
        /\ (The(metrics)).status # "running")
       => /\ (The(metrics')).status # "running"
          /\ (The(metrics)).status = "completed" => (The(metrics')).status = "completed"]_vars

\* a record finalized at a later clock than its start, whose status had
\* left running before the call
C15_Witness ==
    /\ IsFinish
    /\ (The(metrics)).status = "failed"
    /\ The((The(metrics)).duration_seconds) > 0

(***************************************************************************)
(* C16: run_end, duration_seconds and failure_rate_pct are absent in the   *)
(* record start_pipeline_run returns and stay absent under counter and     *)
(* status assignments; finish_pipeline_run makes all three present and     *)
(* they stay present.                                                      *)
(***************************************************************************)
C16_DefinedOnlyAfterFinish ==
    [][/\ ret'.op = "start_pipeline_run" => Absent(The(metrics'))
       /\ ret'.op = "finish_pipeline_run" => Present(The(metrics'))
       /\ (ret'.op \notin {"start_pipeline_run", "finish_pipeline_run"} /\ metrics # None)
          => /\ Absent(The(metrics)) => Absent(The(metrics'))
             /\ Present(The(metrics)) => Present(The(metrics'))]_vars

\* a started record after counter assignments, not finalized
C16_Witness ==
    /\ metrics # None
    /\ ret = NoRet
    /\ Absent(The(metrics))
    /\ (The(metrics)).fetch_failed = 1
    /\ (The(metrics)).urls_inserted = 1

(***************************************************************************)
(* C17: for a record whose failure_rate_pct is present, evaluate_alerts    *)
(* returns at most one failure_rate alert: one CRITICAL                    *)
(* failure_rate_critical alert at 25.00 and above, one WARNING             *)
(* failure_rate_warning alert from 10.00 inclusive to 25.00 exclusive,     *)
(* none below 10.00.                                                       *)
(***************************************************************************)
C17_FailureRateAlert ==
    (IsEval /\ (The(metrics)).failure_rate_pct # None) =>
        LET rate == The((The(metrics)).failure_rate_pct)
            got  == OfCategory(ret.alerts, "failure_rate")
        IN  /\ Len(got) <= 1
            /\ rate >= 2500 =>
                 /\ Len(got) = 1
                 /\ got[1].severity = "CRITICAL"
                 /\ got[1].condition_name = "failure_rate_critical"
            /\ (rate >= 1000 /\ rate < 2500) =>
                 /\ Len(got) = 1
                 /\ got[1].severity = "WARNING"
                 /\ got[1].condition_name = "failure_rate_warning"
            /\ rate < 1000 => Len(got) = 0

\* 1 of 10 fetches failed: the rate is exactly 10.00 and one WARNING is
\* returned
C17_Witness ==
    /\ IsEval
    /\ (The(metrics)).fetch_success = 9
    /\ (The(metrics)).failure_rate_pct = Some(1000)
    /\ Len(OfCategory(ret.alerts, "failure_rate")) = 1
    /\ OfCategory(ret.alerts, "failure_rate")[1].severity = "WARNING"

(***************************************************************************)
(* C18: evaluate_alerts returns one CRITICAL empty_results alert           *)
(* (empty_result_set, metric value the row total, threshold 1) exactly     *)
(* when urls_inserted + urls_updated < 1, whatever the fetch counters, the *)
(* failure rate, the duration and the historical average are.              *)
(***************************************************************************)
C18_EmptyResultAlert ==
    IsEval =>
        LET rows == (The(metrics)).urls_inserted + (The(metrics)).urls_updated
            got  == OfCategory(ret.alerts, "empty_results")
        IN  IF rows < 1
            THEN /\ Len(got) = 1
                 /\ got[1].severity = "CRITICAL"
                 /\ got[1].condition_name = "empty_result_set"
                 /\ got[1].metric_value = rows
                 /\ got[1].threshold = 1
            ELSE Len(got) = 0

\* a finalized run with fetches and a history but no row: the alert is
\* returned
C18_Witness ==
    /\ IsEval
    /\ (The(metrics)).urls_inserted + (The(metrics)).urls_updated = 0
    /\ (The(metrics)).fetch_success = 10
    /\ (The(metrics)).failure_rate_pct = Some(0)
    /\ ret.hist = Some(51)
    /\ Len(OfCategory(ret.alerts, "empty_results")) = 1

(***************************************************************************)
(* C19: evaluate_alerts returns one WARNING performance alert              *)
(* (performance_degradation, threshold the historical average times 2.0)   *)
(* exactly when duration_seconds is present, the historical average is     *)
(* present and positive, and the duration is at least twice the average;   *)
(* with an absent, zero or negative average none is returned.              *)
(***************************************************************************)
C19_PerformanceAlert ==
    IsEval =>
        LET duration == (The(metrics)).duration_seconds
            got      == OfCategory(ret.alerts, "performance")
            degraded == /\ duration # None
                        /\ ret.hist # None
                        /\ The(ret.hist) > 0
                        /\ The(duration) >= 2 * The(ret.hist)
        IN  IF degraded
            THEN /\ Len(got) = 1
                 /\ got[1].severity = "WARNING"
                 /\ got[1].condition_name = "performance_degradation"
                 /\ got[1].threshold = The(ret.hist) * 2
            ELSE Len(got) = 0

\* a run of 1.00 s against an average of 0.50 s: the ratio is exactly 2.0
\* and the alert is returned
C19_Witness ==
    /\ IsEval
    /\ (The(metrics)).duration_seconds = Some(100)
    /\ ret.hist = Some(50)
    /\ Len(OfCategory(ret.alerts, "performance")) = 1

(***************************************************************************)
(* C20: evaluate_alerts returns at most three alerts, at most one of a     *)
(* category, in the order failure_rate, empty_results, performance, and    *)
(* whether a category's alert is present does not change when the inputs   *)
(* of the other two conditions are replaced.                               *)
(***************************************************************************)
CategoryRank(category) ==
    CASE category = "failure_rate"  -> 1
      [] category = "empty_results" -> 2
      [] category = "performance"   -> 3

Has(alerts, category) == OfCategory(alerts, category) # << >>

RateSamples == {None, Some(0), Some(1000), Some(2500)}
RowSamples == {0, 1}
DurationSamples == {None, Some(100)}
HistSamples == {None, Some(50)}

C20_IndependentAndOrdered ==
    IsEval =>
        LET m   == The(metrics)
            got == ret.alerts
        IN  /\ Len(got) <= 3
            /\ \A i \in 1..Len(got) : got[i].category \in {"failure_rate", "empty_results", "performance"}
            /\ \A i \in 1..(Len(got) - 1) :
                  CategoryRank(got[i].category) < CategoryRank(got[i + 1].category)
            /\ \A rows \in RowSamples, d \in DurationSamples, h \in HistSamples :
                  Has(evaluate_alerts([m EXCEPT !.urls_inserted = rows, !.urls_updated = 0,
                                                !.duration_seconds = d], h, issued, now),
                      "failure_rate") = Has(got, "failure_rate")
            /\ \A rate \in RateSamples, d \in DurationSamples, h \in HistSamples :
                  Has(evaluate_alerts([m EXCEPT !.failure_rate_pct = rate,
                                                !.duration_seconds = d], h, issued, now),
                      "empty_results") = Has(got, "empty_results")
            /\ \A rate \in RateSamples, rows \in RowSamples :
                  Has(evaluate_alerts([m EXCEPT !.failure_rate_pct = rate,
                                                !.urls_inserted = rows, !.urls_updated = 0],
                                      ret.hist, issued, now),
                      "performance") = Has(got, "performance")

\* all three conditions met: three alerts, one of each category
C20_Witness ==
    /\ IsEval
    /\ Len(ret.alerts) = 3
    /\ ret.alerts[1].category = "failure_rate"
    /\ ret.alerts[2].category = "empty_results"
    /\ ret.alerts[3].category = "performance"

(***************************************************************************)
(* C21: evaluate_alerts is pure: a call leaves every field of the metrics  *)
(* record unchanged, every alert it returns carries the run_id of the      *)
(* record, and a second call on the same inputs returns alerts with the    *)
(* same severities, categories, condition names, metric values and         *)
(* thresholds.                                                             *)
(***************************************************************************)
Core(alerts) ==
    [i \in 1..Len(alerts) |->
        <<alerts[i].severity, alerts[i].category, alerts[i].condition_name,
          alerts[i].metric_value, alerts[i].threshold>>]

C21_EvaluateIsPure ==
    [][ret'.op = "evaluate_alerts" =>
        /\ metrics' = metrics
        /\ \A i \in 1..Len(ret'.alerts) : ret'.alerts[i].run_id = (The(metrics)).run_id
        /\ Core(evaluate_alerts(The(metrics'), ret'.hist, issued', now')) = Core(ret'.alerts)]_vars

\* an evaluation of a second, finalized run that returned two alerts
C21_Witness ==
    /\ IsEval
    /\ Len(ret.alerts) = 2
    /\ (The(metrics)).run_id = 2
    /\ (The(metrics)).status = "completed"
    /\ ret.alerts[1].run_id = 2
    /\ ret.alerts[2].alert_id = 4

(***************************************************************************)
(* What the last staleness check was given and returned                    *)
(***************************************************************************)
IsStale == ret.op = "evaluate_staleness_alert"
HasLastRun == ret.row # None /\ The(ret.row) # None
LastRun == The(The(ret.row))

(***************************************************************************)
(* C22: when the query yields no row or a null end time,                   *)
(* evaluate_staleness_alert returns exactly one alert: CRITICAL, category  *)
(* staleness, condition no_completed_runs, with run_id, metric_value and   *)
(* threshold absent.                                                       *)
(***************************************************************************)
C22_NoCompletedRun ==
    (IsStale /\ ~HasLastRun) =>
        /\ Len(ret.alerts) = 1
        /\ ret.alerts[1].severity = "CRITICAL"
        /\ ret.alerts[1].category = "staleness"
        /\ ret.alerts[1].condition_name = "no_completed_runs"
        /\ ret.alerts[1].run_id = None
        /\ ret.alerts[1].metric_value = None
        /\ ret.alerts[1].threshold = None

\* a check, three days after the origin, whose row holds NULL
C22_Witness ==
    /\ IsStale
    /\ ret.row = Some(None)
    /\ now = 72 * MsPerHour
    /\ Len(ret.alerts) = 1

(***************************************************************************)
(* C23: when a completed run exists, evaluate_staleness_alert returns at   *)
(* most one alert, decided by the hours since the end of that run:         *)
(* CRITICAL pipeline_stale_critical from 72 hours inclusive, WARNING       *)
(* pipeline_stale_warning from 24 hours inclusive to 72 exclusive, none    *)
(* below 24 hours; the alert has no run_id.                                *)
(***************************************************************************)
C23_StalenessByHours ==
    (IsStale /\ HasLastRun) =>
        LET since == now - Instant(LastRun)
            got   == ret.alerts
        IN  /\ Len(got) <= 1
            /\ \A i \in 1..Len(got) : got[i].run_id = None /\ got[i].category = "staleness"
            /\ since >= 72 * MsPerHour =>
                 /\ Len(got) = 1
                 /\ got[1].severity = "CRITICAL"
                 /\ got[1].condition_name = "pipeline_stale_critical"
            /\ (since >= 24 * MsPerHour /\ since < 72 * MsPerHour) =>
                 /\ Len(got) = 1
                 /\ got[1].severity = "WARNING"
                 /\ got[1].condition_name = "pipeline_stale_warning"
            /\ since < 24 * MsPerHour => Len(got) = 0

\* the last run ended exactly 24 hours ago: one WARNING
C23_Witness ==
    /\ IsStale
    /\ ret.row = Some(Some(Timestamp(0, Some(0))))
    /\ now = 24 * MsPerHour
    /\ Len(ret.alerts) = 1
    /\ ret.alerts[1].severity = "WARNING"

(***************************************************************************)
(* C24: a last-run timestamp without timezone is treated as the same clock *)
(* reading in UTC: the alerts returned have the severity and condition     *)
(* name of those returned for the aware UTC timestamp with that reading.   *)
(***************************************************************************)
SeverityAndCondition(alerts) ==
    [i \in 1..Len(alerts) |-> <<alerts[i].severity, alerts[i].condition_name>>]

C24_NaiveIsUtc ==
    (IsStale /\ HasLastRun /\ LastRun.tz = None) =>
        SeverityAndCondition(ret.alerts) =
            SeverityAndCondition(
                evaluate_staleness_alert(Some(Some(Timestamp(LastRun.clock, Some(0)))),
                                         issued, now))

\* a naive timestamp a minute after the origin, checked 24 hours after the
\* origin: 23 h 59 min, no alert, where a reading one hour ahead of UTC
\* would give a WARNING
C24_Witness ==
    /\ IsStale
    /\ ret.row = Some(Some(Timestamp(MsPerMinute, None)))
    /\ now = 24 * MsPerHour
    /\ ret.alerts = << >>

(***************************************************************************)
(* C25: the http_status of a returned outcome reflects only the final      *)
(* attempt: it is that attempt's status code when the attempt ended by     *)
(* classifying a response, and is absent when the attempt ended in an      *)
(* exception, whatever earlier attempts received; it is absent when no     *)
(* attempt received a response.                                            *)
(***************************************************************************)
C25_StatusOfFinalAttempt ==
    Returned =>
        LET final == Ends[Len(Ends)] IN
        /\ Len(Ends) >= 1
        /\ ByException(final) => result.http_status = None
        /\ ~ByException(final) =>
              /\ final.kind \in {"success", "terminal", "transient"}
              /\ result.http_status = Some(final.val)
        /\ (\A i \in 1..Len(Ends) : Ends[i].val = 0) => result.http_status = None

\* a first attempt answered with 504 and a last attempt whose request timed
\* out: no status is returned
C25_Witness ==
    /\ Returned
    /\ Len(Ends) = MAX_RETRIES + 1
    /\ Ends[1].val = 504
    /\ Ends[MAX_RETRIES + 1].kind = "timeout"
    /\ Ends[MAX_RETRIES + 1].val = 0
    /\ result.http_status = None

(***************************************************************************)
(* The body a successful attempt was sent                                  *)
(***************************************************************************)
IsBody(e) == e.ev = "body"

BodyEvents == SelectSeq(trace, IsBody)

\* the chunks of a body that are not empty
NotEmpty(body) == SelectSeq(body, LAMBDA c : c.bytes > 0)

\* the chunks whose arrival brings the accumulated size above the cap
Overflowing(body) ==
    {j \in 1..Len(body) : Utf8Len(SubSeq(body, 1, j)) > MAX_CONTENT_SIZE}

FirstOverflowing(body) ==
    CHOOSE j \in Overflowing(body) : \A k \in Overflowing(body) : j <= k

C27_SizeAndHashOfContent ==
    (Returned /\ result.fetch_status = "success") =>
        LET text == The(result.content)
            body == BodyEvents[1].body
        IN  /\ result.content # None
            /\ result.content_size_bytes = Utf8Len(text)
            /\ result.content_hash = Some(compute_hash(text))
            /\ Overflowing(body) # {} =>
                  /\ text[Len(text)] = Marker
                  /\ result.content_size_bytes # Utf8Len(NotEmpty(body))
                  /\ result.content_hash # Some(compute_hash(NotEmpty(body)))

\* a truncated body: the size returned is that of the chunk kept plus the
\* marker
C27_Witness ==
    /\ Returned
    /\ result.fetch_status = "success"
    /\ BodyEvents[1].body = <<Chunk(1), Chunk(MAX_CONTENT_SIZE)>>
    /\ result.content_size_bytes = 1 + MARKER_BYTES
    /\ result.content_hash = Some(compute_hash(<<Chunk(1), Marker>>))

(***************************************************************************)
(* C28: an attempt that received a status below 400 and whose body raised  *)
(* while being streamed is a failed attempt: nothing of its body is kept,  *)
(* no pacing sleep is made for it, http_status is reset to absent, and the *)
(* call goes on to the next attempt with its backoff sleep or, on the last *)
(* slot, returns failed or timeout with content absent.                    *)
(***************************************************************************)
StreamRaised(e) == IsEnd(e) /\ ByException(e) /\ GotBelow400(e)

C28_StreamExceptionIsTransportFailure ==
    \A i \in 1..Len(trace) :
        StreamRaised(trace[i]) =>
            LET k == trace[i].attempt IN
            /\ \A j \in 1..Len(trace) :
                  trace[j].attempt = k => ~IsThrottleSleep(trace[j]) /\ ~IsBody(trace[j])
            /\ i = Len(trace) =>
                  /\ http_status = None
                  /\ content = None
                  /\ attempt = k + 1
                  /\ k < MAX_RETRIES => pc = "loop"
                  /\ k = MAX_RETRIES => pc \in {"loop", "returned"}
            /\ i < Len(trace) =>
                  /\ k < MAX_RETRIES
                  /\ trace[i + 1] = EvSleep(k + 1, Backoff(k + 1))
            /\ (Returned /\ k = MAX_RETRIES) =>
                  /\ result.fetch_status \in {"failed", "timeout"}
                  /\ result.content = None
                  /\ result.content_hash = None
                  /\ result.http_status = None

\* the body of a 200 response raised in the first attempt and again in the
\* last one: the call returns failed without content
C28_Witness ==
    /\ Returned
    /\ Len(Ends) = MAX_RETRIES + 1
    /\ StreamRaised(Ends[1])
    /\ StreamRaised(Ends[MAX_RETRIES + 1])
    /\ Ends[MAX_RETRIES + 1].val = 200
    /\ result.fetch_status = "failed"
    /\ result.content = None

(***************************************************************************)
(* C29: for a finalized run the failure-rate alert follows the exact       *)
(* ratio: a failure_rate alert is returned only if (fetch_failed +         *)
(* fetch_timeout) * 100 >= 10 * total fetches, and a CRITICAL one only if  *)
(* (fetch_failed + fetch_timeout) * 100 >= 25 * total fetches; rounding    *)
(* the rate to two decimals never lifts it up to a threshold.              *)
(***************************************************************************)
C29_AlertFollowsExactRatio ==
    (IsEval /\ Present(The(metrics))) =>
        LET m     == The(metrics)
            fails == m.fetch_failed + m.fetch_timeout
            total == m.fetch_success + m.fetch_failed + m.fetch_timeout
            got   == OfCategory(ret.alerts, "failure_rate")
        IN  /\ got # << >> => fails * 100 >= 10 * total
            /\ (got # << >> /\ got[1].severity = "CRITICAL") => fails * 100 >= 25 * total

(***************************************************************************)
(* C30: evaluate_alerts on a record that has not been finalized takes the  *)
(* failure rate as 0.0 and skips the performance condition: it returns no  *)
(* failure_rate alert and no performance alert whatever the fetch counters *)
(* and the historical average are; only the empty_results condition can    *)
(* fire.                                                                   *)
(***************************************************************************)
C30_UnfinalizedRecord ==
    (IsEval /\ Absent(The(metrics))) =>
        LET rows == (The(metrics)).urls_inserted + (The(metrics)).urls_updated IN
        /\ ~Has(ret.alerts, "failure_rate")
        /\ ~Has(ret.alerts, "performance")
        /\ \A i \in 1..Len(ret.alerts) : ret.alerts[i].category = "empty_results"
        /\ Len(ret.alerts) = IF rows < 1 THEN 1 ELSE 0

\* a started run in which 1251 of 1260 fetches failed and no row was
\* written, evaluated against a history of 0.50 s before it is finalized
C30_Witness ==
    /\ IsEval
    /\ Absent(The(metrics))
    /\ (The(metrics)).fetch_failed = 1250
    /\ (The(metrics)).fetch_timeout = 1
    /\ (The(metrics)).fetch_success = 9
    /\ (The(metrics)).urls_inserted = 0
    /\ ret.hist = Some(50)
    /\ now > 0
    /\ Len(ret.alerts) = 1

====
